---- MODULE Spec2Model ----
(***************************************************************************)
(* Model of src/api.py (threatstack-tool): the retry decorator, the API    *)
(* client's signed GET, the response field stripping of the read           *)
(* operations, and the unimplemented write / pagination surface.           *)
(*                                                                         *)
(* Three specifications share the module:                                  *)
(*   SpecRetry  - retry(exc, tries) around an operation f whose successive *)
(*                 outcomes are a script drawn in the initial state;       *)
(*   SpecClient - threads calling the operations of one API object;        *)
(*   SpecNorm   - the field stripping applied to bounded response objects. *)
(***************************************************************************)
EXTENDS Integers, Sequences, FiniteSets, TLC

VARIABLES
    fr,          \* SpecRetry: the frame of the run of new_f
    script,      \* SpecRetry: the outcomes of f's successive invocations
    delayBound,  \* whether the free name `delay` of call() resolves when it
                 \* is read: src/api.py binds it nowhere (NameError); it
                 \* resolves only if the importing program has put a `delay`
                 \* into the module's globals
    sender,      \* SpecClient: self._sender
    header,      \* SpecClient: self._header
    th,          \* SpecClient: each thread's call in progress
    nd           \* SpecNorm: the response being stripped and the results

vars == <<fr, script, delayBound, sender, header, th, nd>>

\* ------------------------------------------------------------------ bounds
MaxTries == 3      \* largest `tries` handed to retry() in SpecRetry
MaxCalls == 4      \* longest script of outcomes of the wrapped operation
MaxRules == 2      \* longest data['rules'] list in SpecNorm

\* ------------------------------------------------------------ values
None == "None"
Values == {"v1", "v2"}

NoCode == 0
TOO_MANY_REQUESTS == 429

\* An exception object: its class, the error_code attribute (RateLimitedError
\* only), the exception it was raised from / while handling (__context__), and
\* the attempt number its message embeds (RetryLimitExceeded's f-string only).
Exc(type, code, context, tries) ==
    [type |-> type, code |-> code, context |-> context, tries |-> tries]

NoExc == Exc(None, NoCode, None, 0)

URLError == Exc("URLError", NoCode, None, 0)

\* RateLimitedError.__init__(message, error_code)
RateLimitedError(error_code) == Exc("RateLimitedError", error_code, None, 0)

KeyError == Exc("KeyError", NoCode, None, 0)

\* The name `delay` is bound nowhere in the module: reading it raises NameError.
\* Raised inside the `except exc` handler, it has the handled exception as its
\* context.
NameError(handled) == Exc("NameError", NoCode, handled.type, 0)

\* raise RetryLimitExceeded(f'Exceeded max of {tries} tries. ...'): raised after
\* the loop, outside every handler, so no cause and no context are attached;
\* the message embeds `tries`.
RetryLimitExceeded(tries) == Exc("RetryLimitExceeded", NoCode, None, tries)

\* What one invocation of a wrapped operation does: return a value or raise.
Returns(v) == [kind |-> "ok", val |-> v, exc |-> NoExc]
NoOutcome == [kind |-> "none", val |-> None, exc |-> NoExc]
Raises(e) == [kind |-> "raise", val |-> None, exc |-> e]

\* @retry((URLError, RateLimitedError), tries=3) on API._get
GetExc == {"URLError", "RateLimitedError"}
GetTries == 3

\* ------------------------------------------------------------ retry
\* The frame of one run of new_f: where it is, the loop index, the invocations
\* of f made, the sleeps completed, `res`, the exception being handled and the
\* outcome handed to the caller.
Frame(tries) ==
    [pc |-> "retry", tries |-> tries, i |-> 0, calls |-> 0, sleeps |-> 0,
     res |-> None, handling |-> NoExc, out |-> NoOutcome]

ValueError == Exc("ValueError", NoCode, None, 0)

\* retry(exc, tries) without its check of tries.
Retry_NoCheck(frm) == [frm EXCEPT !.pc = "loop"]

\* retry(exc, tries): `if tries < 0: raise ValueError`, else the decorator is
\* built and new_f can run.
Retry(frm) ==
    IF frm.tries < 0
    THEN [frm EXCEPT !.pc = "rejected", !.out = Raises(ValueError)]
    ELSE [frm EXCEPT !.pc = "loop"]

\* `except exc as msg`: the handler takes the exceptions whose class is in exc.
Catches(exc, e) == e.type \in exc

\* CallF with a handler that takes every exception (`except Exception`).
CallF_CatchAll(frm, exc, o) ==
    IF o.kind = "ok"
    THEN [frm EXCEPT !.calls = @ + 1, !.res = o.val, !.pc = "returned",
                     !.out = Returns(o.val)]
    ELSE [frm EXCEPT !.calls = @ + 1, !.pc = "except", !.handling = o.exc]

\* One execution of call() up to the handler: res = f(*args, **kwargs); on a
\* return, call() is True and new_f returns res; an exception in exc enters the
\* handler; any other leaves new_f.
CallF(frm, exc, o) ==
    IF o.kind = "ok"
    THEN LET r == o.val
         IN  [frm EXCEPT !.calls = @ + 1, !.res = r, !.pc = "returned",
                        !.out = Returns(r)]
    ELSE IF Catches(exc, o.exc)
    THEN [frm EXCEPT !.calls = @ + 1, !.pc = "except", !.handling = o.exc]
    ELSE [frm EXCEPT !.calls = @ + 1, !.pc = "raised", !.out = Raises(o.exc)]

\* The handler: logging.info, print, sleep(delay), return False. With `delay`
\* unbound the sleep never starts and NameError leaves new_f; otherwise the
\* thread sleeps and the loop goes on to its next iteration.
Handler(frm, bound) ==
    IF bound
    THEN [frm EXCEPT !.sleeps = @ + 1, !.i = @ + 1, !.pc = "loop",
                    !.handling = NoExc]
    ELSE [frm EXCEPT !.pc = "raised", !.out = Raises(NameError(frm.handling)),
                    !.handling = NoExc]

\* The loop going on whatever the iterations made (`while` for `for`).
LoopRuns_Unbounded(frm) == frm.pc = "loop"

\* The loop conditions: `for _ in range(tries)` when tries > 0, `while not
\* call()` when tries is 0.
LoopRuns(frm) == frm.pc = "loop" /\ (frm.tries > 0 => frm.i < frm.tries)
LoopOver(frm) == frm.pc = "loop" /\ frm.tries > 0 /\ frm.i >= frm.tries

\* The for loop's else clause: the f-string reads `tries` and `delay`.
Exhaust(frm, bound) ==
    IF bound
    THEN [frm EXCEPT !.pc = "raised", !.out = Raises(RetryLimitExceeded(frm.tries))]
    ELSE [frm EXCEPT !.pc = "raised", !.out = Raises(NameError(NoExc))]

Terminal(frm) == frm.pc \in {"returned", "raised"}

\* ------------------------------------------------------- the client
\* The threads that call into one API object.
Threads == {"t1", "t2"}

\* Endpoints the read operations GET (ruleset and rule ids left out): those
\* of get_rulesets, get_ruleset and get_rule_tags. _get treats every URL alike,
\* so the other two endpoints add no behaviour.
Urls == {"/v2/rulesets", "/v2/rulesets/{id}", "/v2/rules/{id}/tags"}

\* A mohawk Sender: the URL it signed and what makes its signature unique (its
\* timestamp and nonce), told apart here by the thread and the attempt that
\* constructed it.
Sender(url, t, attempt) == [url |-> url, nonce |-> <<t, attempt>>]
NoSender == [url |-> None, nonce |-> <<None, 0>>]

\* Sender.request_header: the Authorization value of that signature.
RequestHeader(s) == [hawk |-> s.nonce, for |-> s.url]
NoHeader == [hawk |-> <<None, 0>>, for |-> None]

\* A response: its status code and its body, parsed, or NotJson when
\* response.json() raises json.JSONDecodeError.
Statuses == {200, TOO_MANY_REQUESTS, 500}
NotJson == "NotJson"
Bodies == {"b1", "b2"}
Responses ==
    [status : Statuses, json : Bodies \cup {NotJson}]

TypeError == Exc("TypeError", NoCode, None, 0)
NotImplementedError == Exc("NotImplementedError", NoCode, None, 0)

\* `raise RateLimitedError(message=)`: the call names `message` without a value
\* and passes no error_code, which __init__ requires. No exception carrying a
\* code can come out of it: either the construction fails (TypeError) or a
\* RateLimitedError without error_code is raised.
RaiseRateLimited == {Raises(TypeError), Raises(RateLimitedError(NoCode))}

\* The end of API._get: return response.json(), and when that raises
\* JSONDecodeError, RateLimitedError for status 429 and URLError otherwise.
GetOutcomes(resp) ==
    IF resp.json # NotJson
    THEN {Returns(resp.json)}
    ELSE IF resp.status = TOO_MANY_REQUESTS
    THEN RaiseRateLimited
    ELSE {Raises(URLError)}

\* _put, _delete, _post: `@retry(URLError, tries=3, delay=30.0)` over a body of
\* `...`. retry() takes no `delay`, so the decoration raises TypeError; a body
\* of `...` that runs returns None.
StubOutcomes == {Raises(TypeError), Returns(None)}

\* paginate: raise NotImplementedError
PaginateOutcome == Raises(NotImplementedError)

NoReq == [url |-> None, auth |-> NoHeader]
NoResp == [status |-> 0, json |-> None]

\* A thread's call: the operation and its URL, new_f's frame, the Senders the
\* call has constructed, the header value it has read from the Sender and not
\* yet stored, the request it sent and the response to it, and the outcome the
\* caller gets.
Idle ==
    [pc |-> "idle", op |-> None, url |-> None, f |-> Frame(GetTries),
     signs |-> 0, hdr |-> NoHeader,
     req |-> NoReq, resp |-> NoResp, out |-> NoOutcome]

\* The parts of the state a specification does not use.
RetryOff == fr = Frame(0) /\ script = <<>>
ClientOff ==
    /\ sender = NoSender
    /\ header = NoHeader
    /\ th = <<>>

NormOff == nd = <<>>

InitClient ==
    /\ sender = NoSender
    /\ header = NoHeader
    /\ th = [t \in Threads |-> Idle]
    /\ delayBound \in BOOLEAN
    /\ RetryOff
    /\ NormOff

clientFrame == <<fr, script, delayBound, nd>>

\* A thread calls API._get(url): new_f starts, with tries = 3.
CallGet(t) ==
    /\ th[t].pc = "idle"
    /\ \E u \in Urls :
        th' = [th EXCEPT ![t] = [Idle EXCEPT !.pc = "new_f", !.op = "_get",
                                             !.url = u,
                                             !.f = Retry(Frame(GetTries))]]
    /\ UNCHANGED <<sender, header>>
    /\ UNCHANGED clientFrame

\* call() invokes _get, whose first statement is in _update_sender:
\* self._sender = Sender(credentials, url, ...)
UpdateSender(t) ==
    /\ th[t].pc = "new_f"
    /\ LoopRuns(th[t].f)
    /\ sender' = Sender(th[t].url, t, th[t].f.calls + 1)
    /\ th' = [th EXCEPT ![t].pc = "header", ![t].signs = @ + 1]
    /\ UNCHANGED header
    /\ UNCHANGED clientFrame

\* self._header = self._sender.request_header, its right-hand side: the
\* attribute loads, which another thread's stores can follow before the store
\* below.
ReadHeader(t) ==
    /\ th[t].pc = "header"
    /\ th' = [th EXCEPT ![t].hdr = RequestHeader(sender), ![t].pc = "store"]
    /\ UNCHANGED <<sender, header>>
    /\ UNCHANGED clientFrame

\* self._header = self._sender.request_header, the store.
SetHeader(t) ==
    /\ th[t].pc = "store"
    /\ header' = th[t].hdr
    /\ th' = [th EXCEPT ![t].hdr = NoHeader, ![t].pc = "get"]
    /\ UNCHANGED sender
    /\ UNCHANGED clientFrame

\* requests.get(url, headers={'Authorization': self._header, ...}), the
\* response's parse, and what call() makes of it.
Get(t) ==
    /\ th[t].pc = "get"
    /\ \E resp \in Responses : \E o \in GetOutcomes(resp) :
        th' = [th EXCEPT ![t].req = [url |-> th[t].url, auth |-> header],
                         ![t].resp = resp,
                         ![t].f = CallF(th[t].f, GetExc, o),
                         ![t].pc = "new_f"]
    /\ UNCHANGED <<sender, header>>
    /\ UNCHANGED clientFrame

\* The except branch of call() in a thread's run of new_f; _get's locals (the
\* request it sent, the response) went with the exception.
ExceptT(t) ==
    /\ th[t].pc = "new_f"
    /\ th[t].f.pc = "except"
    /\ th' = [th EXCEPT ![t].f = Handler(th[t].f, delayBound),
                         ![t].req = NoReq,
                         ![t].resp = NoResp]
    /\ UNCHANGED <<sender, header>>
    /\ UNCHANGED clientFrame

\* The for loop of a thread's run of new_f ran out of iterations.
ExhaustedT(t) ==
    /\ th[t].pc = "new_f"
    /\ LoopOver(th[t].f)
    /\ th' = [th EXCEPT ![t].f = Exhaust(th[t].f, delayBound)]
    /\ UNCHANGED <<sender, header>>
    /\ UNCHANGED clientFrame

\* new_f hands its value or its exception to the caller of _get; its frame
\* and _get's locals are gone.
ReturnT(t) ==
    /\ th[t].pc = "new_f"
    /\ Terminal(th[t].f)
    /\ th' = [th EXCEPT ![t] = [Idle EXCEPT !.pc = "done", !.op = th[t].op,
                                             !.url = th[t].url,
                                             !.out = th[t].f.out]]
    /\ UNCHANGED <<sender, header>>
    /\ UNCHANGED clientFrame

\* A thread calls _put, _delete or _post.
CallStub(t) ==
    /\ th[t].pc = "idle"
    /\ \E op \in {"_put", "_delete", "_post"} : \E o \in StubOutcomes :
        th' = [th EXCEPT ![t] = [Idle EXCEPT !.pc = "done", !.op = op,
                                             !.out = o]]
    /\ UNCHANGED <<sender, header>>
    /\ UNCHANGED clientFrame

\* A thread calls paginate(f).
CallPaginate(t) ==
    /\ th[t].pc = "idle"
    /\ th' = [th EXCEPT ![t] = [Idle EXCEPT !.pc = "done", !.op = "paginate",
                                            !.out = PaginateOutcome]]
    /\ UNCHANGED <<sender, header>>
    /\ UNCHANGED clientFrame

\* The caller has its result; the thread is free for its next call.
Finish(t) ==
    /\ th[t].pc = "done"
    /\ th' = [th EXCEPT ![t] = Idle]
    /\ UNCHANGED <<sender, header>>
    /\ UNCHANGED clientFrame

NextClient ==
    \E t \in Threads :
        \/ CallGet(t)
        \/ UpdateSender(t)
        \/ ReadHeader(t)
        \/ SetHeader(t)
        \/ Get(t)
        \/ ExceptT(t)
        \/ ExhaustedT(t)
        \/ ReturnT(t)
        \/ CallStub(t)
        \/ CallPaginate(t)
        \/ Finish(t)

SpecClient == InitClient /\ [][NextClient]_vars

\* -------------------------------------------- claims on SpecClient
\* The exception _get raised in thread t's last attempt: the one call() is
\* handling, or the one that left new_f.
GetRaised(t) ==
    IF th[t].f.pc = "except" THEN th[t].f.handling ELSE th[t].f.out.exc

\* C6: a response to the GET whose body is not JSON is classified by its
\* status: 429 gives RateLimitedError with error_code 429, every other status
\* gives URLError (never RateLimitedError).
C6_NonJsonClassifiedByStatus ==
    \A t \in Threads :
        (th[t].resp # NoResp /\ th[t].resp.json = NotJson)
        => IF th[t].resp.status = TOO_MANY_REQUESTS
           THEN GetRaised(t) = RateLimitedError(TOO_MANY_REQUESTS)
           ELSE GetRaised(t) = URLError

\* C7: whatever the interleaving of the threads' calls, the Authorization
\* header of every request sent is the header the sending call itself signed,
\* in that attempt, for the URL the request goes to.
C7_HeaderSignedBySendingCall ==
    \A t \in Threads :
        th[t].req # NoReq
        => (/\ th[t].req.auth.hawk = <<t, th[t].f.calls>>
            /\ th[t].req.auth.for = th[t].req.url)

\* C8: every call of _put, _post, _delete or paginate ends by raising the
\* not-implemented failure; none returns a value.
C8_UnimplementedFailsClosed ==
    \A t \in Threads :
        (th[t].pc = "done" /\ th[t].op \in {"_put", "_post", "_delete", "paginate"})
        => (/\ th[t].out.kind = "raise"
            /\ th[t].out.exc.type = "NotImplementedError")

\* A status in the 2xx range.
Is2xx(status) == status \in 200..299

\* C11: every response to the GET whose status is not 2xx, with a JSON body
\* or not, ends the attempt in a failure that call() catches for a retry
\* (RateLimitedError for 429, URLError otherwise); its body is never
\* returned as the attempt's value.
C11_Non2xxIsRetryableFailure ==
    \A t \in Threads :
        (th[t].resp # NoResp /\ ~Is2xx(th[t].resp.status))
        => (/\ th[t].f.pc = "except"
            /\ th[t].f.handling.type
                 = IF th[t].resp.status = TOO_MANY_REQUESTS
                   THEN "RateLimitedError" ELSE "URLError")

\* C12: when no call is in progress on the client, it holds no signer and no
\* authorization header: self._sender and self._header are None.
C12_NoSignerStateBetweenCalls ==
    (\A t \in Threads : th[t].pc \in {"idle", "done"})
    => (sender = NoSender /\ header = NoHeader)

\* Whether the exception that left thread t's run of new_f comes from a
\* failure of the GET that call() catches: that failure itself, an exception
\* raised while handling it, or RetryLimitExceeded.
FromCaughtFailure(t) ==
    \/ th[t].f.out.exc.type \in GetExc
    \/ th[t].f.out.exc.context \in GetExc
    \/ th[t].f.out.exc.type = "RetryLimitExceeded"

\* C16: a RateLimitedError or URLError of the GET is retried, not handed to
\* the caller: the only failure the caller gets out of them is
\* RetryLimitExceeded, after the third attempt has failed.
C16_GetFailuresRecoveredLocally ==
    \A t \in Threads :
        (th[t].op = "_get" /\ th[t].f.pc = "raised" /\ FromCaughtFailure(t))
        => (/\ th[t].f.out.exc.type = "RetryLimitExceeded"
            /\ th[t].f.calls = GetTries)

Pop(d, k) == [x \in DOMAIN d \ {k} |-> d[x]]

\* for field in fields: if field in data: data.pop(field)
RECURSIVE Strip(_, _)
Strip(data, fields) ==
    IF fields = <<>>
    THEN data
    ELSE Strip(IF Head(fields) \in DOMAIN data THEN Pop(data, Head(fields))
               ELSE data,
               Tail(fields))

\* dict.pop(k), with no default, raises KeyError on a dict that has no k.
PopRaises(d, k) == k \notin DOMAIN d

\* The field loop with the pop not guarded by `if field in data`.
RECURSIVE StripRaises_NoGuard(_, _)
StripRaises_NoGuard(data, fields) ==
    IF fields = <<>>
    THEN FALSE
    ELSE \/ PopRaises(data, Head(fields))
         \/ StripRaises_NoGuard(Pop(data, Head(fields)), Tail(fields))

\* Whether the field loop raises: it pops a field only after `if field in
\* data` found it.
RECURSIVE StripRaises(_, _)
StripRaises(data, fields) ==
    IF fields = <<>>
    THEN FALSE
    ELSE IF Head(fields) \in DOMAIN data
    THEN \/ PopRaises(data, Head(fields))
         \/ StripRaises(Pop(data, Head(fields)), Tail(fields))
    ELSE StripRaises(data, Tail(fields))

\* The tuple of fields each operation loops over.
StripFields(op) ==
    CASE op = "get_ruleset" -> <<"updatedAt", "createdAt">>
      [] op = "get_ruleset_rules" -> <<"rulesetId", "updatedAt", "createdAt">>
      [] op = "get_rule" -> <<"rulesetId", "updatedAt", "createdAt">>
      [] op = "get_rule_tags" -> <<"errors">>
      [] op = "get_rulesets" -> <<>>

\* get_rulesets with get_ruleset's field loop in it.
get_rulesets_Stripped(data) == Strip(data, <<"updatedAt", "createdAt">>)

\* get_rulesets: return data
get_rulesets(data) == data

\* get_ruleset with only 'updatedAt' in its tuple of fields.
get_ruleset_OneField(data) == Strip(data, <<"updatedAt">>)

\* get_ruleset, after its GET
get_ruleset(data) == Strip(data, <<"updatedAt", "createdAt">>)

\* get_rule, after its GET
get_rule(data) == Strip(data, <<"rulesetId", "updatedAt", "createdAt">>)

\* get_rule_tags, after its GET
get_rule_tags(data) == Strip(data, <<"errors">>)

\* get_ruleset_rules with the field loop applied to data instead of
\* data['rules'][i].
get_ruleset_rules_Parent(data) ==
    [k \in DOMAIN data \ {"updatedAt", "createdAt", "rulesetId"} |->
        IF k = "rules"
        THEN [i \in 1..Len(data[k]) |->
                 Strip(data[k][i], <<"rulesetId", "updatedAt", "createdAt">>)]
        ELSE data[k]]

\* get_ruleset_rules, after its GET, for data that has 'rules':
\* for i, rule in enumerate(data['rules']): the field loop on data['rules'][i]
get_ruleset_rules(data) ==
    [data EXCEPT !["rules"] =
        [i \in 1..Len(@) |->
            Strip(@[i], <<"rulesetId", "updatedAt", "createdAt">>)]]

\* --------------------------------------------------------- SpecNorm
\* The flat response objects: any of these keys, each with one of two values.
FlatKeys == {"id", "name", "updatedAt", "createdAt", "rulesetId", "errors"}
FieldValues == {"a", "b"}
FlatObjects == UNION {[ks -> FieldValues] : ks \in SUBSET FlatKeys}

\* The entries of a rule listing: any of these keys; the name tells entries
\* apart.
RuleObjects ==
    UNION {[ks -> {"a"}] : ks \in SUBSET {"rulesetId", "updatedAt", "createdAt"}}
        \cup UNION {{r @@ ("name" :> n) : n \in FieldValues} :
                    r \in UNION {[ks -> {"a"}] :
                                 ks \in SUBSET {"rulesetId", "updatedAt", "createdAt"}}}

RuleLists == UNION {[1..n -> RuleObjects] : n \in 0..MaxRules}

\* The responses to the rule listing: the parent's own fields, and 'rules'
\* (absent from some).
ListingParents == UNION {[ks -> {"a"}] : ks \in SUBSET {"id", "updatedAt", "createdAt"}}
Listings ==
    ListingParents \cup {p @@ ("rules" :> rs) : p \in ListingParents, rs \in RuleLists}

NormOps ==
    {"get_rulesets", "get_ruleset", "get_ruleset_rules", "get_rule", "get_rule_tags"}

\* The operation, the value its GET returned, what the operation returned,
\* what it returned when given that result again, and the exception raised.
NormState(op, data) ==
    [pc |-> "got", op |-> op, data |-> data, res |-> <<>>, res2 |-> <<>>,
     exc |-> None]

InitNorm ==
    /\ \E op \in NormOps :
        \E data \in (IF op = "get_ruleset_rules" THEN Listings ELSE FlatObjects) :
            nd = NormState(op, data)
    /\ RetryOff
    /\ delayBound = FALSE
    /\ ClientOff

normFrame == <<fr, script, delayBound, sender, header, th>>

\* What each operation does with the value v its GET returned.
GetRulesets ==
    /\ nd.pc = "got" /\ nd.op = "get_rulesets"
    /\ nd' = [nd EXCEPT !.res = get_rulesets(nd.data), !.pc = "returned"]
    /\ UNCHANGED normFrame

GetRuleset ==
    /\ nd.pc = "got" /\ nd.op = "get_ruleset"
    /\ nd' = IF StripRaises(nd.data, StripFields(nd.op))
             THEN [nd EXCEPT !.exc = "KeyError", !.pc = "raised"]
             ELSE [nd EXCEPT !.res = get_ruleset(nd.data), !.pc = "returned"]
    /\ UNCHANGED normFrame

\* data['rules'] raises KeyError when the response has no 'rules'; so would a
\* pop of a field an entry does not have.
GetRulesetRules ==
    /\ nd.pc = "got" /\ nd.op = "get_ruleset_rules"
    /\ nd' = IF /\ "rules" \in DOMAIN nd.data
                /\ \A i \in 1..Len(nd.data["rules"]) :
                     ~StripRaises(nd.data["rules"][i], StripFields(nd.op))
             THEN [nd EXCEPT !.res = get_ruleset_rules(nd.data), !.pc = "returned"]
             ELSE [nd EXCEPT !.exc = "KeyError", !.pc = "raised"]
    /\ UNCHANGED normFrame

GetRule ==
    /\ nd.pc = "got" /\ nd.op = "get_rule"
    /\ nd' = IF StripRaises(nd.data, StripFields(nd.op))
             THEN [nd EXCEPT !.exc = "KeyError", !.pc = "raised"]
             ELSE [nd EXCEPT !.res = get_rule(nd.data), !.pc = "returned"]
    /\ UNCHANGED normFrame

GetRuleTags ==
    /\ nd.pc = "got" /\ nd.op = "get_rule_tags"
    /\ nd' = IF StripRaises(nd.data, StripFields(nd.op))
             THEN [nd EXCEPT !.exc = "KeyError", !.pc = "raised"]
             ELSE [nd EXCEPT !.res = get_rule_tags(nd.data), !.pc = "returned"]
    /\ UNCHANGED normFrame

\* The same operation's stripping, applied to the value it returned.
Again ==
    /\ nd.pc = "returned"
    /\ nd' = [nd EXCEPT
                !.pc = "again",
                !.res2 = CASE nd.op = "get_rulesets" -> get_rulesets(nd.res)
                           [] nd.op = "get_ruleset" -> get_ruleset(nd.res)
                           [] nd.op = "get_ruleset_rules" -> get_ruleset_rules(nd.res)
                           [] nd.op = "get_rule" -> get_rule(nd.res)
                           [] nd.op = "get_rule_tags" -> get_rule_tags(nd.res)]
    /\ UNCHANGED normFrame

NextNorm ==
    GetRulesets \/ GetRuleset \/ GetRulesetRules \/ GetRule \/ GetRuleTags \/ Again

SpecNorm == InitNorm /\ [][NextNorm]_vars

\* ---------------------------------------------- claims on SpecNorm
\* C9: what get_ruleset returns has exactly the keys of the response other
\* than updatedAt and createdAt, each with the response's value, and stripping
\* that result again gives the same object.
C9_RulesetStripExactIdempotent ==
    (nd.op = "get_ruleset" /\ nd.pc \in {"returned", "again"})
    => (/\ DOMAIN nd.res = DOMAIN nd.data \ {"updatedAt", "createdAt"}
        /\ \A k \in DOMAIN nd.res : nd.res[k] = nd.data[k]
        /\ nd.pc = "again" => nd.res2 = nd.res)

\* get_ruleset has stripped, twice, a response that had both fields and others.
C9_Witness ==
    /\ nd.op = "get_ruleset"
    /\ nd.pc = "again"
    /\ {"updatedAt", "createdAt", "rulesetId", "name"} \subseteq DOMAIN nd.data

\* C10: for a response with N rule entries, get_ruleset_rules returns the
\* same number of entries in the same order, each without rulesetId, updatedAt
\* and createdAt and with every other field unchanged, and the parent's own
\* fields (its updatedAt and createdAt too) as they were.
C10_RuleListingElementwise ==
    (nd.op = "get_ruleset_rules" /\ nd.pc \in {"returned", "again"})
    => (/\ DOMAIN nd.res = DOMAIN nd.data
        /\ \A k \in DOMAIN nd.data \ {"rules"} : nd.res[k] = nd.data[k]
        /\ Len(nd.res["rules"]) = Len(nd.data["rules"])
        /\ \A i \in 1..Len(nd.data["rules"]) :
            /\ DOMAIN nd.res["rules"][i]
                 = DOMAIN nd.data["rules"][i] \ {"rulesetId", "updatedAt", "createdAt"}
            /\ \A k \in DOMAIN nd.res["rules"][i] :
                 nd.res["rules"][i][k] = nd.data["rules"][i][k])

\* get_ruleset_rules has returned for a response whose parent has updatedAt
\* and createdAt and whose two or more entries, the first two different, have
\* all three fields.
C10_Witness ==
    /\ nd.op = "get_ruleset_rules"
    /\ nd.pc = "returned"
    /\ {"updatedAt", "createdAt", "rules"} \subseteq DOMAIN nd.data
    /\ Len(nd.data["rules"]) >= 2
    /\ nd.data["rules"][1] # nd.data["rules"][2]
    /\ \A i \in 1..Len(nd.data["rules"]) :
        {"rulesetId", "updatedAt", "createdAt", "name"} \subseteq DOMAIN nd.data["rules"][i]

\* C13: get_rulesets returns the value its GET returned as it is: the same
\* keys, each with the same value.
C13_RulesetsReturnedAsIs ==
    (nd.op = "get_rulesets" /\ nd.pc \in {"returned", "again"})
    => (/\ nd.exc = None
        /\ DOMAIN nd.res = DOMAIN nd.data
        /\ \A k \in DOMAIN nd.data : nd.res[k] = nd.data[k])

\* get_rulesets has returned a response that has every field the other
\* operations strip.
C13_Witness ==
    /\ nd.op = "get_rulesets"
    /\ nd.pc = "returned"
    /\ {"updatedAt", "createdAt", "rulesetId", "errors"} \subseteq DOMAIN nd.data

\* The fields get_ruleset, get_rule and get_rule_tags are to strip.
ToStrip(op) ==
    CASE op = "get_ruleset" -> {"updatedAt", "createdAt"}
      [] op = "get_rule" -> {"rulesetId", "updatedAt", "createdAt"}
      [] op = "get_rule_tags" -> {"errors"}

\* C17: get_ruleset, get_rule and get_rule_tags never raise on a response
\* that lacks some or all of their fields to strip: they return it with the
\* fields that are present removed and every other key and value unchanged.
C17_StripToleratesMissingFields ==
    (nd.op \in {"get_ruleset", "get_rule", "get_rule_tags"} /\ nd.pc # "got")
    => (/\ nd.pc \in {"returned", "again"}
        /\ nd.exc = None
        /\ DOMAIN nd.res = DOMAIN nd.data \ ToStrip(nd.op)
        /\ \A k \in DOMAIN nd.res : nd.res[k] = nd.data[k])

\* get_rule has returned for a response without rulesetId and createdAt, with
\* updatedAt and with another field.
C17_Witness ==
    /\ nd.op = "get_rule"
    /\ nd.pc = "returned"
    /\ "rulesetId" \notin DOMAIN nd.data
    /\ "createdAt" \notin DOMAIN nd.data
    /\ {"updatedAt", "name"} \subseteq DOMAIN nd.data

\* ------------------------------------------------------- SpecRetry
\* The outcomes an invocation of the wrapped operation can have.
Outcomes ==
    {Returns(v) : v \in Values}
        \cup {Raises(URLError), Raises(RateLimitedError(TOO_MANY_REQUESTS)),
              Raises(KeyError)}

Scripts == UNION {[1..n -> Outcomes] : n \in 1..MaxCalls}

InitRetry ==
    /\ \E t \in -MaxTries..MaxTries : fr = Frame(t)
    /\ script \in Scripts
    /\ delayBound \in BOOLEAN
    /\ ClientOff
    /\ NormOff

retryFrame == <<script, delayBound, sender, header, th, nd>>

\* retry(exc, tries) is evaluated: the tries check.
Decorate ==
    /\ fr.pc = "retry"
    /\ fr' = Retry(fr)
    /\ UNCHANGED retryFrame

\* new_f runs call(): the next invocation of f, with the script's outcome.
Call ==
    /\ LoopRuns(fr)
    /\ fr.calls < Len(script)
    /\ fr' = CallF(fr, GetExc, script[fr.calls + 1])
    /\ UNCHANGED retryFrame

\* The except branch of call() runs to its end.
Except ==
    /\ fr.pc = "except"
    /\ fr' = Handler(fr, delayBound)
    /\ UNCHANGED retryFrame

\* The for loop ran out of iterations.
Exhausted ==
    /\ LoopOver(fr)
    /\ fr' = Exhaust(fr, delayBound)
    /\ UNCHANGED retryFrame

NextRetry == Decorate \/ Call \/ Except \/ Exhausted

SpecRetry == InitRetry /\ [][NextRetry]_vars

\* new_f runs in its caller's thread, one statement after the other: a step
\* that can be taken is taken.
SpecRetryFair == SpecRetry /\ WF_vars(NextRetry)

\* --------------------------------------------- claims on SpecRetry
IsRetryable(o) == o.kind = "raise" /\ Catches(GetExc, o.exc)
IsFatal(o) == o.kind = "raise" /\ ~Catches(GetExc, o.exc)

\* f fails with a retryable error on each of its first k invocations.
FailsFirst(k) == Len(script) >= k /\ \A n \in 1..k : IsRetryable(script[n])

\* C1: when f fails with a retryable error on its first k invocations and
\* succeeds on invocation k+1, a run with tries = k+1 that has ended has
\* returned that invocation's value after exactly k+1 invocations.
C1_SucceedsOnLastAttempt ==
    \A k \in 0..MaxTries :
        (/\ fr.tries = k + 1
         /\ FailsFirst(k)
         /\ Len(script) >= k + 1
         /\ script[k + 1].kind = "ok"
         /\ Terminal(fr))
        => (/\ fr.pc = "returned"
            /\ fr.out = Returns(script[k + 1].val)
            /\ fr.calls = k + 1)

\* C2: when f fails with a retryable error on each of its first k >= 1
\* invocations, a run with tries = k never invokes f more than k times, and
\* when it has ended it has raised RetryLimitExceeded after exactly k
\* invocations.
C2_ExhaustsAfterKAttempts ==
    \A k \in 1..MaxTries :
        (fr.tries = k /\ FailsFirst(k))
        => (/\ fr.calls <= k
            /\ Terminal(fr) => (/\ fr.out.kind = "raise"
                                /\ fr.out.exc.type = "RetryLimitExceeded"
                                /\ fr.calls = k))

\* C3: an invocation of f that raises an exception outside the retryable set
\* is the last one: the exception reaches the caller as it is, with no sleep
\* after it and no further invocation, for every tries (0 included). For the
\* first invocation: exactly one invocation and no sleep at all.
C3_NonRetryablePropagates ==
    \A n \in 1..Len(script) :
        (fr.calls >= n /\ IsFatal(script[n]))
        => (/\ fr.calls = n
            /\ fr.pc = "raised"
            /\ fr.out = Raises(script[n].exc)
            /\ fr.sleeps = n - 1
            /\ fr.handling = NoExc)

\* A run with tries = 0 whose first invocation raised a non-retryable
\* exception.
C3_Witness ==
    /\ fr.tries = 0
    /\ fr.calls = 1
    /\ IsFatal(script[1])
    /\ fr.pc = "raised"

\* C4: a run with tries = 0 never raises RetryLimitExceeded, and while f fails
\* only with retryable errors it ends only by an invocation succeeding, whose
\* value it returns.
C4_UnboundedEndsOnlyOnSuccess ==
    (fr.tries = 0 /\ fr.pc # "retry")
    => (/\ ~(fr.out.kind = "raise" /\ fr.out.exc.type = "RetryLimitExceeded")
        /\ (Terminal(fr) /\ \A n \in 1..fr.calls : ~IsFatal(script[n]))
           => (/\ fr.pc = "returned"
               /\ script[fr.calls].kind = "ok"
               /\ fr.out = Returns(script[fr.calls].val)))

\* C5: when a run with tries > 0 has ended with every one of its tries
\* invocations failing with a retryable error, the caller receives
\* RetryLimitExceeded carrying the last of those errors and the number of
\* attempts made.
C5_ExhaustionCarriesCause ==
    (/\ fr.tries > 0
     /\ FailsFirst(fr.tries)
     /\ fr.calls = fr.tries
     /\ Terminal(fr))
    => (/\ fr.out.kind = "raise"
        /\ fr.out.exc.type = "RetryLimitExceeded"
        /\ fr.out.exc.context = script[fr.tries].exc.type
        /\ fr.out.exc.tries = fr.calls)

C15_BoundedRetryTerminates ==
    /\ [](fr.tries > 0 => fr.calls <= fr.tries)
    /\ ((fr.tries > 0 /\ Len(script) >= fr.tries) ~> Terminal(fr))

\* A run with tries = 3 has ended after 3 invocations that all failed.
C15_Witness ==
    /\ fr.tries = 3
    /\ fr.calls = 3
    /\ fr.pc = "raised"
    /\ FailsFirst(3)

\* C19: retry(exc, tries) with tries < 0 raises ValueError before any
\* invocation of an operation; with tries = 0 or tries > 0 it does not.
C19_NegativeTriesRejected ==
    fr.pc # "retry"
    => IF fr.tries < 0
       THEN /\ fr.pc = "rejected"
            /\ fr.out = Raises(ValueError)
            /\ fr.calls = 0
       ELSE /\ fr.pc # "rejected"
            /\ ~(fr.out.kind = "raise" /\ fr.out.exc.type = "ValueError")

\* retry() has rejected tries = -2.
C19_Witness ==
    /\ fr.tries = -2
    /\ fr.pc = "rejected"
    /\ fr.calls = 0

====
